---- MODULE Spec2Model ----
(***************************************************************************)
(* A model of the qparams package: process-wide defaults, per-endpoint     *)
(* Options built by NewSearchHandler, the validation of a SearchRequest    *)
(* and the middleware that decodes, validates and hands the request on.    *)
(*                                                                         *)
(* Go maps are reference values.  The package allocates exactly four of    *)
(* them (filter.go:65, relational_operator.go:62, qparams.go:65 and :69);  *)
(* every other map-typed variable or field holds a reference to one of     *)
(* these.  The model keeps the contents of each map in `heap` and lets     *)
(* the variables and fields hold the map's identity.                       *)
(*                                                                         *)
(* A *int is modelled as a sequence: <<>> is nil, <<n>> points to n.       *)
(* An error is a tuple <<format, args...>>; <<>> is the nil error.         *)
(***************************************************************************)
EXTENDS Integers, Sequences, FiniteSets, TLC

VARIABLES
    heap,                    \* contents of the four maps, by identity
    defaultQueryParam,       \* qparams.go:33
    defaultSearchMandatory,  \* qparams.go:37
    defaultLimit,            \* qparams.go:49
    defaultErrorHandler,     \* qparams.go:54
    endpoints,               \* the Options captured by each middleware built
    optsIn,                  \* NewSearchHandler harness: the option list passed in
    call,                    \* the inbound call being served and what the middleware did with it
    search,                  \* validateSearchRequest harness: the request
    verr,                    \* validateSearchRequest harness: the returned error
    phase                    \* validateSearchRequest harness: "input" or "validated"

vars == <<heap, defaultQueryParam, defaultSearchMandatory, defaultLimit,
          defaultErrorHandler, endpoints, optsIn, call, search, verr, phase>>

----------------------------------------------------------------------------
(* Operator registry *)

AndOperator == "and"
OrOperator == "or"

EqualsOperator == "eq"
NotEqualsOperator == "ne"
GreaterThanOperator == "gt"
GreaterThanEqualsOperator == "gte"
LowerThanOperator == "lt"
LowerThanEqualsOperator == "lte"
LikeOperator == "like"
ILikeOperator == "ilike"
InOperator == "in"

OrderAsc == "asc"
OrderDesc == "desc"

\* identities of the four maps
logicalOperators == "map:logicalOperators"
relationalOperators == "map:relationalOperators"
defaultFilterFields == "map:defaultFilterFields"
defaultOrderFields == "map:defaultOrderFields"

\* the default operator sets are the registry maps themselves, not copies
defaultLogicalOperators == logicalOperators
defaultRelationalOperators == relationalOperators

MapIds == {logicalOperators, relationalOperators, defaultFilterFields, defaultOrderFields}

\* the composite literals the four maps are initialised with
InitialHeap ==
    [m \in MapIds |->
        CASE m = logicalOperators -> {AndOperator, OrOperator}
          [] m = relationalOperators ->
                {EqualsOperator, NotEqualsOperator, GreaterThanOperator,
                 GreaterThanEqualsOperator, LowerThanOperator, LowerThanEqualsOperator,
                 LikeOperator, ILikeOperator, InOperator}
          [] m = defaultFilterFields -> {}
          [] m = defaultOrderFields -> {}]

----------------------------------------------------------------------------
(* Helpers *)

nil == <<>>
ptr(v) == <<v>>

Range(s) == {s[i] : i \in 1..Len(s)}

\* sequences over S of length at most n
SeqsUpTo(S, n) == UNION {[1..k -> S] : k \in 0..n}

\* _, ok := m[k]
Has(h, m, k) == k \in h[m]

\* clear(m); for _, v := range values { m[v] = struct{}{} }
MapReplace(h, m, values) == [h EXCEPT ![m] = Range(values)]

\* for _, v := range values { m[v] = struct{}{} }
MapExtend(h, m, values) == [h EXCEPT ![m] = h[m] \cup Range(values)]

----------------------------------------------------------------------------
(* Validation engine: validateSearchRequest *)

NoError == <<>>

ErrLimitNegative == <<"limit must be null or >= 0">>
ErrLimitMandatory == <<"limit is mandatory">>
ErrLimitTooHigh(max) == <<"limit must be between 0 and %d", max>>
ErrOffsetNegative == <<"offset must be null or >= 0">>
ErrOrderField(field) == <<"field %q not allowed in order by", field>>
ErrLogicalOperator(op) == <<"logical operator %q not allowed", op>>
ErrFilterField(field) == <<"field %q not allowed in filters", field>>
ErrRelationalOperator(op, field) == <<"relational operator %q not allowed for field %q", op, field>>

\* validateLimit with the ceiling compared by >= instead of >
validateLimit_CeilingExclusive(s, opts) ==
    IF s.Limit # nil /\ s.Limit[1] < 0 THEN ErrLimitNegative
    ELSE IF opts.limit # nil
         THEN IF s.Limit = nil THEN ErrLimitMandatory
              ELSE IF s.Limit[1] >= opts.limit[1] THEN ErrLimitTooHigh(opts.limit[1])
              ELSE NoError
         ELSE NoError

\* the two limit checks, in source order
validateLimit(s, opts) ==
    IF s.Limit # nil /\ s.Limit[1] < 0 THEN ErrLimitNegative
    ELSE IF opts.limit # nil
         THEN IF s.Limit = nil THEN ErrLimitMandatory
              ELSE IF s.Limit[1] > opts.limit[1] THEN ErrLimitTooHigh(opts.limit[1])
              ELSE NoError
         ELSE NoError

\* validateOffset with the bound compared by <= instead of <
validateOffset_ZeroRejected(s) ==
    IF s.Offset # nil /\ s.Offset[1] <= 0 THEN ErrOffsetNegative ELSE NoError

validateOffset(s) ==
    IF s.Offset # nil /\ s.Offset[1] < 0 THEN ErrOffsetNegative ELSE NoError

RECURSIVE validateOrderBy(_, _, _, _)
\* for _, o := range s.OrderBy, from index i on
validateOrderBy(h, orderBy, i, opts) ==
    IF i > Len(orderBy) THEN NoError
    ELSE IF ~Has(h, opts.allowedOrderFields, orderBy[i].Field)
         THEN ErrOrderField(orderBy[i].Field)
         ELSE validateOrderBy(h, orderBy, i + 1, opts)

RECURSIVE validateFilters(_, _, _, _)
\* for _, f := range g.Filters, from index i on
validateFilters(h, filters, i, opts) ==
    IF i > Len(filters) THEN NoError
    ELSE IF ~Has(h, opts.allowedFilterFields, filters[i].Field)
         THEN ErrFilterField(filters[i].Field)
    ELSE IF ~Has(h, opts.allowedRelationalOperators, filters[i].Op)
         THEN ErrRelationalOperator(filters[i].Op, filters[i].Field)
    ELSE validateFilters(h, filters, i + 1, opts)

RECURSIVE validateGroup(_, _, _)
RECURSIVE validateGroups(_, _, _, _)
\* validateGroups with the nested groups left unvisited
validateGroups_Unvisited(h, groups, i, opts) == NoError

\* for _, sg := range g.Groups { validateGroup(&sg) }, from index i on
validateGroups(h, groups, i, opts) ==
    IF i > Len(groups) THEN NoError
    ELSE LET err == validateGroup(h, ptr(groups[i]), opts)
         IN IF err # NoError THEN err
            ELSE validateGroups(h, groups, i + 1, opts)

\* validateGroup with the nested groups visited before the group's own filters
validateGroup_GroupsFirst(h, g, opts) ==
    IF g = nil THEN NoError
    ELSE IF ~Has(h, opts.allowedLogicalOperators, g[1].Op)
         THEN ErrLogicalOperator(g[1].Op)
    ELSE LET err == validateGroups(h, g[1].Groups, 1, opts)
         IN IF err # NoError THEN err
            ELSE validateFilters(h, g[1].Filters, 1, opts)

\* the closure validateGroup; g is a *FilterGroup
validateGroup(h, g, opts) ==
    IF g = nil THEN NoError
    ELSE IF ~Has(h, opts.allowedLogicalOperators, g[1].Op)
         THEN ErrLogicalOperator(g[1].Op)
    ELSE LET err == validateFilters(h, g[1].Filters, 1, opts)
         IN IF err # NoError THEN err
            ELSE validateGroups(h, g[1].Groups, 1, opts)

\* validateSearchRequest with the offset checked before the limit
validateSearchRequest_OffsetFirst(h, s, opts) ==
    LET e1 == validateLimit(s, opts)
        e2 == validateOffset(s)
        e3 == validateOrderBy(h, s.OrderBy, 1, opts)
    IN IF e2 # NoError THEN e2
       ELSE IF e1 # NoError THEN e1
       ELSE IF e3 # NoError THEN e3
       ELSE validateGroup(h, s.Groups, opts)

validateSearchRequest(h, s, opts) ==
    LET e1 == validateLimit(s, opts)
        e2 == validateOffset(s)
        e3 == validateOrderBy(h, s.OrderBy, 1, opts)
    IN IF e1 # NoError THEN e1
       ELSE IF e2 # NoError THEN e2
       ELSE IF e3 # NoError THEN e3
       ELSE validateGroup(h, s.Groups, opts)


----------------------------------------------------------------------------
(* Configuration resolver: defaults, options, NewSearchHandler *)

MaxEndpoints == 2
MaxOpts == 2

\* values the callers of the package pass in
QueryParams == {"q", "s"}
Fields == {"id", "name"}
ErrorHandlers == {"defaultErrorHandler", "customErrorHandler"}
FieldArgs == {<<"id">>, <<"name">>}
LogicalOperatorArgs == {<<AndOperator>>}
RelationalOperatorArgs == {<<EqualsOperator>>}
LimitArgs == {-1, 1}

\* An Option closes over its argument; it is applied to st = [o |-> the
\* Options under construction, h |-> the heap], because the map-valued
\* options write through the references held in o.
WithQueryParam(value, st) == [st EXCEPT !.o.queryParam = value]

WithSearchMandatory(value, st) == [st EXCEPT !.o.isSearchMandatory = value]

WithLogicalOperators(values, st) ==
    [st EXCEPT !.h = MapReplace(st.h, st.o.allowedLogicalOperators, values)]

WithRelationalOperators(values, st) ==
    [st EXCEPT !.h = MapReplace(st.h, st.o.allowedRelationalOperators, values)]

\* WithLimit leaving the ceiling as it was when the value is negative
WithLimit_NegativeIgnored(value, st) ==
    IF value < 0 THEN st
    ELSE [st EXCEPT !.o.limit = ptr(value)]

WithLimit(value, st) ==
    IF value < 0 THEN [st EXCEPT !.o.limit = nil]
    ELSE [st EXCEPT !.o.limit = ptr(value)]

WithErrorHandler(handler, st) == [st EXCEPT !.o.errorHandler = handler]

WithFilterFields(fields, st) ==
    [st EXCEPT !.h = MapReplace(st.h, st.o.allowedFilterFields, fields)]

WithExtraFilterFields(fields, st) ==
    [st EXCEPT !.h = MapExtend(st.h, st.o.allowedFilterFields, fields)]

WithOrderFields(fields, st) ==
    [st EXCEPT !.h = MapReplace(st.h, st.o.allowedOrderFields, fields)]

WithExtraOrderFields(fields, st) ==
    [st EXCEPT !.h = MapExtend(st.h, st.o.allowedOrderFields, fields)]

\* the Option values a caller can build; the argument is held in a field
\* named after its type
OptionValues ==
    [kind : {"WithQueryParam"}, str : QueryParams]
    \cup [kind : {"WithSearchMandatory"}, flag : BOOLEAN]
    \cup [kind : {"WithLogicalOperators"}, list : LogicalOperatorArgs]
    \cup [kind : {"WithRelationalOperators"}, list : RelationalOperatorArgs]
    \cup [kind : {"WithLimit"}, num : LimitArgs]
    \cup [kind : {"WithErrorHandler"}, str : ErrorHandlers]
    \cup [kind : {"WithFilterFields", "WithExtraFilterFields",
                  "WithOrderFields", "WithExtraOrderFields"}, list : FieldArgs]

\* opt(options)
ApplyOption(opt, st) ==
    CASE opt.kind = "WithQueryParam" -> WithQueryParam(opt.str, st)
      [] opt.kind = "WithSearchMandatory" -> WithSearchMandatory(opt.flag, st)
      [] opt.kind = "WithLogicalOperators" -> WithLogicalOperators(opt.list, st)
      [] opt.kind = "WithRelationalOperators" -> WithRelationalOperators(opt.list, st)
      [] opt.kind = "WithLimit" -> WithLimit(opt.num, st)
      [] opt.kind = "WithErrorHandler" -> WithErrorHandler(opt.str, st)
      [] opt.kind = "WithFilterFields" -> WithFilterFields(opt.list, st)
      [] opt.kind = "WithExtraFilterFields" -> WithExtraFilterFields(opt.list, st)
      [] opt.kind = "WithOrderFields" -> WithOrderFields(opt.list, st)
      [] opt.kind = "WithExtraOrderFields" -> WithExtraOrderFields(opt.list, st)

RECURSIVE ApplyOptions_Reversed(_, _, _)
\* ApplyOptions with the options applied last to first
ApplyOptions_Reversed(opts, i, st) ==
    IF i > Len(opts) THEN st
    ELSE ApplyOption(opts[i], ApplyOptions_Reversed(opts, i + 1, st))

RECURSIVE ApplyOptions(_, _, _)
\* for _, opt := range opts { opt(options) }, from index i on
ApplyOptions(opts, i, st) ==
    IF i > Len(opts) THEN st
    ELSE ApplyOptions(opts, i + 1, ApplyOption(opts[i], st))

\* options := &Options{...}: scalars are copied, maps are shared by reference
NewOptions ==
    [queryParam |-> defaultQueryParam,
     isSearchMandatory |-> defaultSearchMandatory,
     allowedLogicalOperators |-> defaultLogicalOperators,
     allowedRelationalOperators |-> defaultRelationalOperators,
     limit |-> defaultLimit,
     errorHandler |-> defaultErrorHandler,
     allowedFilterFields |-> defaultFilterFields,
     allowedOrderFields |-> defaultOrderFields]

Harness == <<search, verr, phase>>

NewSearchHandler(opts) ==
    /\ Len(endpoints) < MaxEndpoints
    /\ LET st == ApplyOptions(opts, 1, [o |-> NewOptions, h |-> heap])
       IN /\ endpoints' = Append(endpoints, st.o)
          /\ heap' = st.h
    /\ UNCHANGED optsIn
    /\ UNCHANGED <<defaultQueryParam, defaultSearchMandatory, defaultLimit,
                   defaultErrorHandler, call, Harness>>

SetDefaultQueryParam(value) ==
    /\ defaultQueryParam' = value
    /\ UNCHANGED <<heap, defaultSearchMandatory, defaultLimit, defaultErrorHandler,
                   endpoints, optsIn, call, Harness>>

SetDefaultSearchMandatory(value) ==
    /\ defaultSearchMandatory' = value
    /\ UNCHANGED <<heap, defaultQueryParam, defaultLimit, defaultErrorHandler,
                   endpoints, optsIn, call, Harness>>

SetDefaultLogicalOperators(values) ==
    /\ heap' = MapReplace(heap, defaultLogicalOperators, values)
    /\ UNCHANGED <<defaultQueryParam, defaultSearchMandatory, defaultLimit,
                   defaultErrorHandler, endpoints, optsIn, call, Harness>>

SetDefaultRelationalOperators(values) ==
    /\ heap' = MapReplace(heap, defaultRelationalOperators, values)
    /\ UNCHANGED <<defaultQueryParam, defaultSearchMandatory, defaultLimit,
                   defaultErrorHandler, endpoints, optsIn, call, Harness>>

SetDefaultLimit(value) ==
    /\ defaultLimit' = IF value < 0 THEN nil ELSE ptr(value)
    /\ UNCHANGED <<heap, defaultQueryParam, defaultSearchMandatory, defaultErrorHandler,
                   endpoints, optsIn, call, Harness>>

SetDefaultErrorHandler(value) ==
    /\ defaultErrorHandler' = value
    /\ UNCHANGED <<heap, defaultQueryParam, defaultSearchMandatory, defaultLimit,
                   endpoints, optsIn, call, Harness>>

SetDefaultFilterFields(values) ==
    /\ heap' = MapReplace(heap, defaultFilterFields, values)
    /\ UNCHANGED <<defaultQueryParam, defaultSearchMandatory, defaultLimit,
                   defaultErrorHandler, endpoints, optsIn, call, Harness>>

SetDefaultOrderFields(values) ==
    /\ heap' = MapReplace(heap, defaultOrderFields, values)
    /\ UNCHANGED <<defaultQueryParam, defaultSearchMandatory, defaultLimit,
                   defaultErrorHandler, endpoints, optsIn, call, Harness>>

NoCall == [pc |-> "none"]
NoSearch == [Groups |-> nil, OrderBy |-> <<>>, Limit |-> nil, Offset |-> nil]

\* the package-level variable initialisers
InitDefaults ==
    /\ heap = InitialHeap
    /\ defaultQueryParam = "q"
    /\ defaultSearchMandatory = TRUE
    /\ defaultLimit = nil
    /\ defaultErrorHandler = "defaultErrorHandler"

InitConfig ==
    /\ InitDefaults
    /\ endpoints = <<>>
    /\ optsIn = <<>>
    /\ call = NoCall
    /\ search = NoSearch
    /\ verr = NoError
    /\ phase = "idle"

SetDefault ==
    \/ \E v \in QueryParams : SetDefaultQueryParam(v)
    \/ \E v \in BOOLEAN : SetDefaultSearchMandatory(v)
    \/ \E v \in LogicalOperatorArgs : SetDefaultLogicalOperators(v)
    \/ \E v \in RelationalOperatorArgs : SetDefaultRelationalOperators(v)
    \/ \E v \in LimitArgs : SetDefaultLimit(v)
    \/ \E v \in ErrorHandlers : SetDefaultErrorHandler(v)
    \/ \E v \in FieldArgs : SetDefaultFilterFields(v)
    \/ \E v \in FieldArgs : SetDefaultOrderFields(v)

NextConfig ==
    \/ SetDefault
    \/ \E opts \in SeqsUpTo(OptionValues, MaxOpts) : NewSearchHandler(opts)

SpecConfig == InitConfig /\ [][NextConfig]_vars


\* NewSearchHandler on its own: Init draws the option list, the defaults of
\* the two field sets are whatever SetDefault*Fields left
FieldOptionValues ==
    {o \in OptionValues : o.kind \in {"WithFilterFields", "WithExtraFilterFields",
                                      "WithOrderFields", "WithExtraOrderFields",
                                      "WithLogicalOperators"}}

InitOptions ==
    /\ InitDefaults
    /\ endpoints = <<>>
    /\ optsIn \in SeqsUpTo(FieldOptionValues, MaxOpts)
    /\ call = NoCall
    /\ search = NoSearch
    /\ verr = NoError
    /\ phase = "idle"

NextOptions ==
    \/ \E v \in FieldArgs : SetDefaultFilterFields(v)
    \/ \E v \in FieldArgs : SetDefaultOrderFields(v)
    \/ NewSearchHandler(optsIn)

SpecOptions == InitOptions /\ [][NextOptions]_vars


\* NewSearchHandler on its own, for the scalar settings: Init draws the
\* option list, the scalar defaults are whatever SetDefault* left
ScalarOptionValues ==
    {o \in OptionValues : o.kind \in {"WithQueryParam", "WithSearchMandatory",
                                      "WithLimit", "WithErrorHandler"}}
    \cup {[kind |-> "WithLimit", num |-> 2]}

InitScalars ==
    /\ InitDefaults
    /\ endpoints = <<>>
    /\ optsIn \in SeqsUpTo(ScalarOptionValues, MaxOpts)
    /\ call = NoCall
    /\ search = NoSearch
    /\ verr = NoError
    /\ phase = "idle"

NextScalars ==
    \/ \E v \in QueryParams : SetDefaultQueryParam(v)
    \/ \E v \in BOOLEAN : SetDefaultSearchMandatory(v)
    \/ \E v \in LimitArgs : SetDefaultLimit(v)
    \/ \E v \in ErrorHandlers : SetDefaultErrorHandler(v)
    \/ NewSearchHandler(optsIn)

SpecScalars == InitScalars /\ [][NextScalars]_vars

----------------------------------------------------------------------------
(* validateSearchRequest on its own: Init draws a request and an Options,  *)
(* Validate applies the function.                                          *)

MaxLimit == 2
MaxOrder == 2
MaxFilters == 2
MaxGroups == 2
TreeDepth == 3

LimitValues == {nil} \cup {ptr(n) : n \in -1..MaxLimit}
OffsetValues == {nil, ptr(-1), ptr(0)}
Ceilings == {nil} \cup {ptr(n) : n \in 0..MaxLimit}
OrderClauses == [Field : Fields, Direction : {OrderAsc}]
OrderLists == SeqsUpTo(OrderClauses, MaxOrder)

\* Filter trees of the full shape (TreeDepth levels, MaxGroups nested groups
\* and MaxFilters filters per group) in which up to two places carry a
\* value other than "and" / "id" / "eq".  A place is the operator of the
\* group at `path`, or the field or the operator of its idx-th filter.
Nodes == UNION {[1..k -> 1..MaxGroups] : k \in 0..(TreeDepth - 1)}
Places == [path : Nodes, idx : {0}, what : {"gop"}]
          \cup [path : Nodes, idx : 1..MaxFilters, what : {"field", "op"}]
PlaceSets == {{}} \cup {{a, b} : a, b \in Places}
RootPlaceSets == {{}} \cup {{a} : a \in {p \in Places : p.path = <<>>}}

RECURSIVE BuildGroup(_, _)
BuildGroup(p, V) ==
    [Op |-> IF [path |-> p, idx |-> 0, what |-> "gop"] \in V
            THEN OrOperator ELSE AndOperator,
     Filters |-> [i \in 1..MaxFilters |->
                    [Field |-> IF [path |-> p, idx |-> i, what |-> "field"] \in V
                               THEN "name" ELSE "id",
                     Op |-> IF [path |-> p, idx |-> i, what |-> "op"] \in V
                            THEN NotEqualsOperator ELSE EqualsOperator,
                     Value |-> "v"]],
     Groups |-> IF Len(p) + 1 >= TreeDepth THEN <<>>
                ELSE [j \in 1..MaxGroups |-> BuildGroup(Append(p, j), V)]]

\* the Options a test hands to validateSearchRequest; its maps are the four
\* maps of the heap
HarnessOptions(ceiling) == [NewOptions EXCEPT !.limit = ceiling]

StrictHeap(orderFields) ==
    [m \in MapIds |->
        CASE m = logicalOperators -> {AndOperator}
          [] m = relationalOperators -> {EqualsOperator}
          [] m = defaultFilterFields -> {"id"}
          [] m = defaultOrderFields -> orderFields]

EmptyHeap(orderFields) ==
    [m \in MapIds |-> IF m = defaultOrderFields THEN orderFields ELSE {}]

InitValidate ==
    /\ defaultQueryParam = "q"
    /\ defaultSearchMandatory = TRUE
    /\ defaultLimit = nil
    /\ defaultErrorHandler = "defaultErrorHandler"
    /\ optsIn = <<>>
    /\ call = [pc |-> "none"]
    /\ verr = NoError
    /\ phase = "input"
    /\ \/ \* pagination and ordering in full, a small filter tree
          \E lim \in LimitValues, off \in OffsetValues, ord \in OrderLists,
             V \in RootPlaceSets, hasTree \in BOOLEAN,
             ceiling \in Ceilings, orderFields \in SUBSET Fields, strict \in BOOLEAN :
             /\ hasTree \/ V = {}
             /\ search = [Groups |-> IF hasTree THEN ptr(BuildGroup(<<>>, V)) ELSE nil,
                          OrderBy |-> ord, Limit |-> lim, Offset |-> off]
             /\ heap = IF strict THEN StrictHeap(orderFields) ELSE EmptyHeap(orderFields)
             /\ endpoints = <<HarnessOptions(ceiling)>>
       \/ \* the filter tree in full
          \E V \in PlaceSets :
             /\ search = [Groups |-> ptr(BuildGroup(<<>>, V)),
                          OrderBy |-> <<>>, Limit |-> nil, Offset |-> nil]
             /\ heap = StrictHeap({"id"})
             /\ endpoints = <<HarnessOptions(nil)>>

\* validateSearchRequest writing the zero offset into a request without one
Validate_FillsOffset ==
    /\ phase = "input"
    /\ verr' = validateSearchRequest(heap, search, endpoints[1])
    /\ search' = [search EXCEPT !.Offset = IF @ = nil THEN ptr(0) ELSE @]
    /\ phase' = "validated"
    /\ UNCHANGED <<heap, defaultQueryParam, defaultSearchMandatory, defaultLimit,
                   defaultErrorHandler, endpoints, optsIn, call>>

Validate ==
    /\ phase = "input"
    /\ verr' = validateSearchRequest(heap, search, endpoints[1])
    /\ phase' = "validated"
    /\ UNCHANGED <<heap, defaultQueryParam, defaultSearchMandatory, defaultLimit,
                   defaultErrorHandler, endpoints, optsIn, call, search>>

SpecValidate == InitValidate /\ [][Validate]_vars


----------------------------------------------------------------------------
(* Middleware bridge: the handler returned by NewSearchHandler *)

\* The value of a query parameter is a text: the empty string, a text that
\* does not start with a JSON value, a JSON document, or a JSON document
\* followed by more text.  A JSON object is a record keyed by the member
\* names as they appear in the text, an array is a sequence.
EmptyText == [kind |-> "empty"]
GarbageText == [kind |-> "garbage"]
JSONText(doc) == [kind |-> "json", doc |-> doc]
TrailingText(doc) == [kind |-> "json+text", doc |-> doc]

\* the URL carries no query parameter, or one parameter with a text
NoParam == [name |-> ""]

\* r.URL.Query().Get(name): the empty string when the parameter is not there
Get(query, name) ==
    IF query.name = name /\ name # "" THEN query.text ELSE EmptyText

ErrUnknownField(key) == <<"json: unknown field %q", key>>
ErrSyntax == <<"invalid character">>
ErrEOF == <<"EOF">>
ErrMissing(param) == <<"missing %q query parameter", param>>

\* the first error among the results of decoding the elements of an array
FirstError(rs) ==
    IF \E i \in 1..Len(rs) : rs[i].err # NoError
    THEN rs[CHOOSE i \in 1..Len(rs) :
                /\ rs[i].err # NoError
                /\ \A k \in 1..(i - 1) : rs[k].err = NoError].err
    ELSE NoError

Member(j, key, zero) == IF key \in DOMAIN j THEN j[key] ELSE zero

UnknownKey(j, known) == CHOOSE k \in DOMAIN j \ known : TRUE

\* Filter and its json tags, under DisallowUnknownFields
DecodeFilter(j) ==
    IF ~(DOMAIN j \subseteq {"field", "op", "value"})
    THEN [err |-> ErrUnknownField(UnknownKey(j, {"field", "op", "value"}))]
    ELSE [err |-> NoError,
          v |-> [Field |-> Member(j, "field", ""), Op |-> Member(j, "op", ""),
                 Value |-> Member(j, "value", "")]]

\* OrderClause and its json tags
DecodeOrderClause(j) ==
    IF ~(DOMAIN j \subseteq {"field", "direction"})
    THEN [err |-> ErrUnknownField(UnknownKey(j, {"field", "direction"}))]
    ELSE [err |-> NoError,
          v |-> [Field |-> Member(j, "field", ""),
                 Direction |-> Member(j, "direction", "")]]

RECURSIVE DecodeFilterGroup(_)
\* FilterGroup and its json tags
DecodeFilterGroup(j) ==
    IF ~(DOMAIN j \subseteq {"op", "filters", "groups"})
    THEN [err |-> ErrUnknownField(UnknownKey(j, {"op", "filters", "groups"}))]
    ELSE LET fj == Member(j, "filters", <<>>)
             gj == Member(j, "groups", <<>>)
             fs == [i \in 1..Len(fj) |-> DecodeFilter(fj[i])]
             gs == [i \in 1..Len(gj) |-> DecodeFilterGroup(gj[i])]
         IN IF FirstError(fs) # NoError THEN [err |-> FirstError(fs)]
            ELSE IF FirstError(gs) # NoError THEN [err |-> FirstError(gs)]
            ELSE [err |-> NoError,
                  v |-> [Op |-> Member(j, "op", ""),
                         Filters |-> [i \in 1..Len(fj) |-> fs[i].v],
                         Groups |-> [i \in 1..Len(gj) |-> gs[i].v]]]

\* SearchRequest with the offset member not bound to the Offset field
DecodeSearchRequest_OffsetDropped(j) ==
    IF ~(DOMAIN j \subseteq {"groups", "order_by", "limit", "offset"})
    THEN [err |-> ErrUnknownField(UnknownKey(j, {"groups", "order_by", "limit", "offset"}))]
    ELSE LET oj == Member(j, "order_by", <<>>)
             os == [i \in 1..Len(oj) |-> DecodeOrderClause(oj[i])]
             g == IF "groups" \in DOMAIN j THEN DecodeFilterGroup(j.groups)
                  ELSE [err |-> NoError]
         IN IF g.err # NoError THEN [err |-> g.err]
            ELSE IF FirstError(os) # NoError THEN [err |-> FirstError(os)]
            ELSE [err |-> NoError,
                  v |-> [Groups |-> IF "groups" \in DOMAIN j THEN ptr(g.v) ELSE nil,
                         OrderBy |-> [i \in 1..Len(oj) |-> os[i].v],
                         Limit |-> IF "limit" \in DOMAIN j THEN ptr(j.limit) ELSE nil,
                         Offset |-> nil]]

\* SearchRequest and its json tags
DecodeSearchRequest(j) ==
    IF ~(DOMAIN j \subseteq {"groups", "order_by", "limit", "offset"})
    THEN [err |-> ErrUnknownField(UnknownKey(j, {"groups", "order_by", "limit", "offset"}))]
    ELSE LET oj == Member(j, "order_by", <<>>)
             os == [i \in 1..Len(oj) |-> DecodeOrderClause(oj[i])]
             g == IF "groups" \in DOMAIN j THEN DecodeFilterGroup(j.groups)
                  ELSE [err |-> NoError]
         IN IF g.err # NoError THEN [err |-> g.err]
            ELSE IF FirstError(os) # NoError THEN [err |-> FirstError(os)]
            ELSE [err |-> NoError,
                  v |-> [Groups |-> IF "groups" \in DOMAIN j THEN ptr(g.v) ELSE nil,
                         OrderBy |-> [i \in 1..Len(oj) |-> os[i].v],
                         Limit |-> IF "limit" \in DOMAIN j THEN ptr(j.limit) ELSE nil,
                         Offset |-> IF "offset" \in DOMAIN j THEN ptr(j.offset) ELSE nil]]

\* decoder := json.NewDecoder(strings.NewReader(s)); decoder.DisallowUnknownFields();
\* decoder.Decode(&search): one call reads the first JSON value of the stream
\* and leaves whatever follows it unread
Decode(text) ==
    CASE text.kind = "empty" -> [err |-> ErrEOF]
      [] text.kind = "garbage" -> [err |-> ErrSyntax]
      [] text.kind = "json" -> DecodeSearchRequest(text.doc)
      [] text.kind = "json+text" -> DecodeSearchRequest(text.doc)

\* A context is the chain of its bindings, innermost last.  A key is its
\* dynamic type and its value, so contextKey("search") and the plain string
\* "search" are different keys.
\* the key as a plain string instead of a value of the package's own type
searchKey_PlainString == <<"string", "search">>

searchKey == <<"contextKey", "search">>
NoValue == [type |-> "nil"]

EmptyContext == <<>>

\* context.WithValue(ctx, key, val)
WithValue(ctx, key, val) == Append(ctx, [key |-> key, val |-> val])

\* ctx.Value(key)
Value(ctx, key) ==
    IF \E i \in 1..Len(ctx) : ctx[i].key = key
    THEN ctx[CHOOSE i \in 1..Len(ctx) :
                /\ ctx[i].key = key
                /\ \A k \in (i + 1)..Len(ctx) : ctx[k].key # key].val
    ELSE NoValue

GetSearchRequest(ctx) ==
    LET v == Value(ctx, searchKey)
    IN IF v = NoValue THEN nil
       ELSE IF v.type # "*SearchRequest" THEN nil
       ELSE v.ptr

\* what the middleware has done with the call so far
Arrived(e, query, ctx) ==
    [pc |-> "done", endpoint |-> e, query |-> query, ctxIn |-> ctx,
     nextCalls |-> 0, errCalls |-> 0, err |-> NoError,
     handler |-> "", ctx |-> EmptyContext]

\* next.ServeHTTP(w, r) with r carrying ctx
CallNext(c, ctx) == [c EXCEPT !.nextCalls = @ + 1, !.ctx = ctx]

\* options.errorHandler(w, r, err)
CallErrorHandler(c, options, err) ==
    [c EXCEPT !.errCalls = @ + 1, !.handler = options.errorHandler, !.err = err]

\* ServeHTTP with the return after next.ServeHTTP missing in the
\* not-mandatory branch
ServeHTTPOutcome_FallThrough(c, h, options) ==
    LET s == Get(c.query, options.queryParam)
        d == Decode(s)
    IN IF s = EmptyText
       THEN IF ~options.isSearchMandatory
            THEN CallErrorHandler(CallNext(c, c.ctxIn), options, ErrMissing(options.queryParam))
            ELSE CallErrorHandler(c, options, ErrMissing(options.queryParam))
       ELSE IF d.err # NoError THEN CallErrorHandler(c, options, d.err)
       ELSE IF validateSearchRequest(h, d.v, options) # NoError
            THEN CallErrorHandler(c, options, validateSearchRequest(h, d.v, options))
       ELSE CallNext(c, WithValue(c.ctxIn, searchKey,
                                  [type |-> "*SearchRequest", ptr |-> ptr(d.v)]))

\* ServeHTTP attaching a zero SearchRequest when the parameter is absent on
\* a not-mandatory endpoint
ServeHTTPOutcome_ZeroAttached(c, h, options) ==
    LET s == Get(c.query, options.queryParam)
        d == Decode(s)
    IN IF s = EmptyText
       THEN IF ~options.isSearchMandatory
            THEN CallNext(c, WithValue(c.ctxIn, searchKey,
                                       [type |-> "*SearchRequest",
                                        ptr |-> ptr([Groups |-> nil, OrderBy |-> <<>>,
                                                     Limit |-> nil, Offset |-> nil])]))
            ELSE CallErrorHandler(c, options, ErrMissing(options.queryParam))
       ELSE IF d.err # NoError THEN CallErrorHandler(c, options, d.err)
       ELSE IF validateSearchRequest(h, d.v, options) # NoError
            THEN CallErrorHandler(c, options, validateSearchRequest(h, d.v, options))
       ELSE CallNext(c, WithValue(c.ctxIn, searchKey,
                                  [type |-> "*SearchRequest", ptr |-> ptr(d.v)]))

\* the body of the http.HandlerFunc, applied to the arrived call c
ServeHTTPOutcome(c, h, options) ==
    LET s == Get(c.query, options.queryParam)
        d == Decode(s)
    IN IF s = EmptyText
       THEN IF ~options.isSearchMandatory
            THEN CallNext(c, c.ctxIn)
            ELSE CallErrorHandler(c, options, ErrMissing(options.queryParam))
       ELSE IF d.err # NoError THEN CallErrorHandler(c, options, d.err)
       ELSE IF validateSearchRequest(h, d.v, options) # NoError
            THEN CallErrorHandler(c, options, validateSearchRequest(h, d.v, options))
       ELSE CallNext(c, WithValue(c.ctxIn, searchKey,
                                  [type |-> "*SearchRequest", ptr |-> ptr(d.v)]))

\* one inbound call through the middleware of endpoint e
ServeHTTP(e, query, ctx) ==
    /\ call = NoCall
    /\ e \in 1..Len(endpoints)
    /\ call' = ServeHTTPOutcome(Arrived(e, query, ctx), heap, endpoints[e])
    /\ UNCHANGED <<heap, defaultQueryParam, defaultSearchMandatory, defaultLimit,
                   defaultErrorHandler, endpoints, optsIn, Harness>>

\* the call is over: its request and its context are dropped
Finish ==
    /\ call # NoCall
    /\ call' = NoCall
    /\ UNCHANGED <<heap, defaultQueryParam, defaultSearchMandatory, defaultLimit,
                   defaultErrorHandler, endpoints, optsIn, Harness>>


\* the payloads sent by the clients, as JSON documents
FilterJSONs == [field : Fields, op : {EqualsOperator, NotEqualsOperator}, value : {"v"}]
OrderClauseJSONs == [field : Fields, direction : {OrderAsc, OrderDesc}]
GroupJSONs ==
    {[op |-> a, filters |-> <<f>>] : a \in {AndOperator, OrOperator}, f \in FilterJSONs}
    \cup {[op |-> a, groups |-> <<[op |-> b, groups |-> <<[op |-> c]>>]>>] :
            a, b, c \in {AndOperator, OrOperator}}
Documents ==
    {[limit |-> l, offset |-> o] : l \in {-1, 1, 2}, o \in {-1, 0}}
    \cup {[limit |-> 1], [offset |-> 0], [limit |-> 10, offset |-> 0]}
    \cup {[limit |-> 1, order_by |-> <<c>>] : c \in OrderClauseJSONs}
    \cup {[limit |-> 1, order_by |-> <<[field |-> "id", direction |-> OrderAsc], c>>] :
            c \in OrderClauseJSONs}
    \cup {[limit |-> 1, groups |-> g] : g \in GroupJSONs}
    \cup {[groups |-> g] : g \in GroupJSONs}
    \cup {[limit |-> 1, order_by |-> <<[field |-> "id", direction |-> "sideways"]>>]}
    \cup {[groups |-> [op |-> "xor"]],
          [groups |-> [op |-> AndOperator,
                       filters |-> <<[field |-> "id", op |-> "regex", value |-> "v"]>>]]}
    \cup {[limit |-> 1, page |-> 1],
          [limit |-> 1, order_by |-> <<[field |-> "id", dir |-> OrderAsc]>>],
          [limit |-> 1, groups |-> [op |-> AndOperator,
                                    groups |-> <<[op |-> AndOperator, not |-> "x"]>>]],
          [limit |-> 1, groups |-> [op |-> AndOperator,
                                    filters |-> <<[field |-> "id", op |-> EqualsOperator,
                                                   val |-> "v"]>>]]}
Texts ==
    {EmptyText, GarbageText}
    \cup {JSONText(d) : d \in Documents}
    \cup {TrailingText([limit |-> 1, offset |-> 0])}
Queries ==
    {NoParam}
    \cup {[name |-> "q", text |-> t] : t \in Texts}
    \cup {[name |-> "s", text |-> t] : t \in {EmptyText, JSONText([limit |-> 1, offset |-> 0])}}

\* the options the endpoints of the service are built with
MiddlewareOptionValues ==
    {[kind |-> "WithQueryParam", str |-> "s"],
     [kind |-> "WithSearchMandatory", flag |-> FALSE],
     [kind |-> "WithLimit", num |-> 1],
     [kind |-> "WithLogicalOperators", list |-> <<AndOperator>>],
     [kind |-> "WithRelationalOperators", list |-> <<EqualsOperator>>],
     [kind |-> "WithLogicalOperators", list |-> <<"xor">>],
     [kind |-> "WithRelationalOperators", list |-> <<"regex">>],
     [kind |-> "WithFilterFields", list |-> <<"id">>],
     [kind |-> "WithOrderFields", list |-> <<"id">>]}

Init ==
    /\ InitDefaults
    /\ endpoints = <<>>
    /\ optsIn \in SeqsUpTo(MiddlewareOptionValues, MaxOpts)
    /\ call = NoCall
    /\ search = NoSearch
    /\ verr = NoError
    /\ phase = "idle"

Next ==
    \/ NewSearchHandler(optsIn)
    \/ \E e \in 1..MaxEndpoints, query \in Queries : ServeHTTP(e, query, EmptyContext)
    \/ Finish

Spec == Init /\ [][Next]_vars


----------------------------------------------------------------------------
(* GetSearchRequest on its own: the caller binds values in the context of  *)
(* a request, then asks for the SearchRequest.                             *)

MaxBindings == 2

\* the keys a context is bound under: the package's key, the plain string
\* of the same spelling, another plain string
ContextKeys == {<<"contextKey", "search">>, <<"string", "search">>, <<"string", "user">>}

\* the values bound: a string, an untyped nil, pointers to two requests, a
\* nil *SearchRequest, a SearchRequest that is not a pointer
ContextValues ==
    {[type |-> "string", str |-> "not a SearchRequest"],
     NoValue,
     [type |-> "*SearchRequest", ptr |-> ptr([NoSearch EXCEPT !.Limit = ptr(50)])],
     [type |-> "*SearchRequest", ptr |-> ptr([NoSearch EXCEPT !.Offset = ptr(0)])],
     [type |-> "*SearchRequest", ptr |-> nil],
     [type |-> "SearchRequest", val |-> NoSearch]}

NoRequest == [pc |-> "request", ctx |-> EmptyContext]

InitContext ==
    /\ InitDefaults
    /\ endpoints = <<>>
    /\ optsIn = <<>>
    /\ call = NoRequest
    /\ search = NoSearch
    /\ verr = NoError
    /\ phase = "idle"

\* req = req.WithContext(context.WithValue(req.Context(), key, val))
WithContext(key, val) ==
    /\ call.pc = "request"
    /\ Len(call.ctx) < MaxBindings
    /\ call' = [call EXCEPT !.ctx = WithValue(call.ctx, key, val)]
    /\ UNCHANGED <<heap, defaultQueryParam, defaultSearchMandatory, defaultLimit,
                   defaultErrorHandler, endpoints, optsIn, Harness>>

\* s := GetSearchRequest(req)
Retrieve ==
    /\ call.pc = "request"
    /\ call' = [pc |-> "retrieved", ctx |-> call.ctx,
                result |-> GetSearchRequest(call.ctx)]
    /\ UNCHANGED <<heap, defaultQueryParam, defaultSearchMandatory, defaultLimit,
                   defaultErrorHandler, endpoints, optsIn, Harness>>

NextContext ==
    \/ \E key \in ContextKeys, val \in ContextValues : WithContext(key, val)
    \/ Retrieve

SpecContext == InitContext /\ [][NextContext]_vars

----------------------------------------------------------------------------
(* Symbol() on its own: a value of one of the three string types is drawn, *)
(* Symbol is applied to it.                                                *)

\* RelationalOperator.Symbol with "ne" rendered as "!="
RelationalOperatorSymbol_BangEquals(o) ==
    CASE o = NotEqualsOperator -> "!="
      [] o = GreaterThanOperator -> ">"
      [] o = GreaterThanEqualsOperator -> ">="
      [] o = LowerThanOperator -> "<"
      [] o = LowerThanEqualsOperator -> "<="
      [] o = LikeOperator -> "like"
      [] o = ILikeOperator -> "ilike"
      [] o = InOperator -> "in"
      [] OTHER -> "="

RelationalOperatorSymbol(o) ==
    CASE o = NotEqualsOperator -> "<>"
      [] o = GreaterThanOperator -> ">"
      [] o = GreaterThanEqualsOperator -> ">="
      [] o = LowerThanOperator -> "<"
      [] o = LowerThanEqualsOperator -> "<="
      [] o = LikeOperator -> "like"
      [] o = ILikeOperator -> "ilike"
      [] o = InOperator -> "in"
      [] OTHER -> "="

LogicalOperatorSymbol(o) ==
    CASE o = OrOperator -> OrOperator
      [] OTHER -> AndOperator

OrderDirectionSymbol(d) ==
    CASE d = OrderDesc -> OrderDesc
      [] OTHER -> OrderAsc

\* the three types are strings: any string converts to each of them
SymbolTypes == {"LogicalOperator", "RelationalOperator", "OrderDirection"}

SymbolValues ==
    {"and", "or", "eq", "ne", "gt", "gte", "lt", "lte", "like", "ilike", "in",
     "asc", "desc", "", "foo", "xor", "regex", "AND", "Or", "EQ", "=", "<>", "DESC"}

InitSymbol ==
    /\ InitDefaults
    /\ endpoints = <<>>
    /\ optsIn = <<>>
    /\ call \in [pc : {"value"}, type : SymbolTypes, value : SymbolValues]
    /\ search = NoSearch
    /\ verr = NoError
    /\ phase = "idle"

\* value.Symbol()
Symbol ==
    /\ call.pc = "value"
    /\ call' = [pc |-> "symbol", type |-> call.type, value |-> call.value,
                symbol |-> CASE call.type = "LogicalOperator" ->
                                    LogicalOperatorSymbol(call.value)
                             [] call.type = "RelationalOperator" ->
                                    RelationalOperatorSymbol(call.value)
                             [] call.type = "OrderDirection" ->
                                    OrderDirectionSymbol(call.value)]
    /\ UNCHANGED <<heap, defaultQueryParam, defaultSearchMandatory, defaultLimit,
                   defaultErrorHandler, endpoints, optsIn, Harness>>

SpecSymbol == InitSymbol /\ [][Symbol]_vars

----------------------------------------------------------------------------
(* Calls in flight together: the host runs the handler of one endpoint on  *)
(* several goroutines, each statement of the handler is a step.            *)

MaxCalls == 2

Calls == 1..MaxCalls

\* the locals of one invocation of the handler: the request it serves, s,
\* search, and what it has called so far
IdleCall ==
    [pc |-> "idle", query |-> NoParam, s |-> EmptyText, search |-> NoSearch,
     nextCalls |-> 0, errCalls |-> 0, err |-> NoError, ctx |-> EmptyContext]

\* search as one variable of the enclosing function, written by every
\* invocation, instead of a local of each
SearchOf_Hoisted(p) ==
    IF \E q \in Calls : call[q].pc \in {"validate", "attach", "done"}
                        /\ call[q].search # NoSearch
    THEN call[CHOOSE q \in Calls :
                /\ call[q].pc \in {"validate", "attach", "done"}
                /\ call[q].search # NoSearch
                /\ \A k \in Calls :
                      (call[k].pc \in {"validate", "attach", "done"}
                       /\ call[k].search # NoSearch) => q <= k].search
    ELSE call[p].search

\* var search SearchRequest: the local of invocation p
SearchOf(p) == call[p].search

\* the host hands a request to the handler of the first endpoint
Arrive(p, query) ==
    /\ Len(endpoints) >= 1
    /\ call[p].pc = "idle"
    /\ call' = [call EXCEPT ![p] = [IdleCall EXCEPT !.pc = "read", !.query = query]]
    /\ UNCHANGED <<heap, defaultQueryParam, defaultSearchMandatory, defaultLimit,
                   defaultErrorHandler, endpoints, optsIn, Harness>>

\* s := r.URL.Query().Get(options.queryParam) and the branch on s == ""
ReadParam(p) ==
    /\ call[p].pc = "read"
    /\ LET options == endpoints[1]
           s == Get(call[p].query, options.queryParam)
       IN call' = [call EXCEPT ![p] =
            IF s = EmptyText
            THEN IF ~options.isSearchMandatory
                 THEN [@ EXCEPT !.pc = "done", !.nextCalls = @ + 1]
                 ELSE [@ EXCEPT !.pc = "done", !.errCalls = @ + 1,
                                !.err = ErrMissing(options.queryParam)]
            ELSE [@ EXCEPT !.pc = "decode", !.s = s]]
    /\ UNCHANGED <<heap, defaultQueryParam, defaultSearchMandatory, defaultLimit,
                   defaultErrorHandler, endpoints, optsIn, Harness>>

\* decoder.Decode(&search)
DecodeStep(p) ==
    /\ call[p].pc = "decode"
    /\ LET d == Decode(call[p].s)
       IN call' = [call EXCEPT ![p] =
            IF d.err # NoError
            THEN [@ EXCEPT !.pc = "done", !.errCalls = @ + 1, !.err = d.err]
            ELSE [@ EXCEPT !.pc = "validate", !.search = d.v]]
    /\ UNCHANGED <<heap, defaultQueryParam, defaultSearchMandatory, defaultLimit,
                   defaultErrorHandler, endpoints, optsIn, Harness>>

\* validateSearchRequest(&search, options)
ValidateStep(p) ==
    /\ call[p].pc = "validate"
    /\ LET e == validateSearchRequest(heap, SearchOf(p), endpoints[1])
       IN call' = [call EXCEPT ![p] =
            IF e # NoError
            THEN [@ EXCEPT !.pc = "done", !.errCalls = @ + 1, !.err = e]
            ELSE [@ EXCEPT !.pc = "attach"]]
    /\ UNCHANGED <<heap, defaultQueryParam, defaultSearchMandatory, defaultLimit,
                   defaultErrorHandler, endpoints, optsIn, Harness>>

\* ctx := context.WithValue(r.Context(), searchKey, &search);
\* next.ServeHTTP(w, r.WithContext(ctx))
Attach(p) ==
    /\ call[p].pc = "attach"
    /\ call' = [call EXCEPT ![p] =
            [@ EXCEPT !.pc = "done", !.nextCalls = @ + 1,
                      !.ctx = WithValue(EmptyContext, searchKey,
                                        [type |-> "*SearchRequest",
                                         ptr |-> ptr(SearchOf(p))])]]
    /\ UNCHANGED <<heap, defaultQueryParam, defaultSearchMandatory, defaultLimit,
                   defaultErrorHandler, endpoints, optsIn, Harness>>

\* the payloads of the calls in flight
ConcurrentQueries ==
    {NoParam}
    \cup {[name |-> "q", text |-> t] :
            t \in {JSONText([limit |-> 1, offset |-> 0]),
                   JSONText([limit |-> 2]),
                   JSONText([limit |-> -1]),
                   GarbageText}}

ConcurrentOptionValues ==
    {[kind |-> "WithSearchMandatory", flag |-> FALSE],
     [kind |-> "WithLimit", num |-> 1]}

InitConcurrent ==
    /\ InitDefaults
    /\ endpoints = <<>>
    /\ optsIn \in SeqsUpTo(ConcurrentOptionValues, MaxOpts)
    /\ call = [p \in Calls |-> IdleCall]
    /\ search = NoSearch
    /\ verr = NoError
    /\ phase = "idle"

\* the endpoints are built before the host starts serving
NextConcurrent ==
    \/ (\A p \in Calls : call[p].pc = "idle") /\ NewSearchHandler(optsIn)
    \/ \E p \in Calls, query \in ConcurrentQueries : Arrive(p, query)
    \/ \E p \in Calls : ReadParam(p)
    \/ \E p \in Calls : DecodeStep(p)
    \/ \E p \in Calls : ValidateStep(p)
    \/ \E p \in Calls : Attach(p)

SpecConcurrent == InitConcurrent /\ [][NextConcurrent]_vars

----------------------------------------------------------------------------
(* The request invariants of the data model, stated on their own *)

\* the error taxonomy, by message
Kind(e) ==
    IF e = NoError THEN "none"
    ELSE CASE e[1] \in {"limit must be null or >= 0", "limit is mandatory",
                        "limit must be between 0 and %d"} -> "InvalidLimit"
           [] e[1] = "offset must be null or >= 0" -> "InvalidOffset"
           [] e[1] = "field %q not allowed in order by" -> "DisallowedOrderField"
           [] e[1] = "logical operator %q not allowed" -> "DisallowedLogicalOperator"
           [] e[1] = "field %q not allowed in filters" -> "DisallowedFilterField"
           [] e[1] = "relational operator %q not allowed for field %q"
                -> "DisallowedRelationalOperator"
           [] e[1] = "missing %q query parameter" -> "MissingParameter"
           [] OTHER -> "MalformedPayload"

LimitOk(s, o) ==
    /\ s.Limit = nil \/ s.Limit[1] >= 0
    /\ o.limit # nil => (s.Limit # nil /\ s.Limit[1] <= o.limit[1])

OffsetOk(s) == s.Offset = nil \/ s.Offset[1] >= 0

OrderOk(h, s, o) ==
    \A i \in 1..Len(s.OrderBy) : s.OrderBy[i].Field \in h[o.allowedOrderFields]

RECURSIVE GroupOk(_, _, _)
GroupOk(h, g, o) ==
    /\ g.Op \in h[o.allowedLogicalOperators]
    /\ \A i \in 1..Len(g.Filters) :
          /\ g.Filters[i].Field \in h[o.allowedFilterFields]
          /\ g.Filters[i].Op \in h[o.allowedRelationalOperators]
    /\ \A j \in 1..Len(g.Groups) : GroupOk(h, g.Groups[j], o)

TreeOk(h, s, o) == s.Groups = nil \/ GroupOk(h, s.Groups[1], o)

Satisfies(h, s, o) ==
    LimitOk(s, o) /\ OffsetOk(s) /\ OrderOk(h, s, o) /\ TreeOk(h, s, o)

RECURSIVE Flatten(_)
Flatten(ss) == IF ss = <<>> THEN <<>> ELSE Head(ss) \o Flatten(Tail(ss))

\* every violation of a filter, field before operator
FilterErrors(h, f, o) ==
    (IF f.Field \in h[o.allowedFilterFields] THEN <<>> ELSE <<ErrFilterField(f.Field)>>)
    \o (IF f.Op \in h[o.allowedRelationalOperators] THEN <<>>
        ELSE <<ErrRelationalOperator(f.Op, f.Field)>>)

RECURSIVE PreOrderErrors(_, _, _)
\* every violation of a filter tree, listed in depth-first pre-order
PreOrderErrors(h, g, o) ==
    (IF g.Op \in h[o.allowedLogicalOperators] THEN <<>> ELSE <<ErrLogicalOperator(g.Op)>>)
    \o Flatten([i \in 1..Len(g.Filters) |-> FilterErrors(h, g.Filters[i], o)])
    \o Flatten([j \in 1..Len(g.Groups) |-> PreOrderErrors(h, g.Groups[j], o)])

\* the fields of the order clauses that are not allowed, in the order supplied
DisallowedOrderFields(h, s, o) ==
    Flatten([i \in 1..Len(s.OrderBy) |->
                IF s.OrderBy[i].Field \in h[o.allowedOrderFields] THEN <<>>
                ELSE <<s.OrderBy[i].Field>>])

Validated == phase = "validated"

----------------------------------------------------------------------------
(* Claims about validateSearchRequest *)

\* C6: validation reports only the first violation, in the fixed order
\* limit, then offset, then the order clauses in the order supplied, then the
\* filter tree: a bad limit gives InvalidLimit whatever else is wrong; else a
\* negative offset gives InvalidOffset; else the earliest disallowed order
\* field is named; only then a filter-tree error is reported.
C6_FailFastOrder ==
    Validated =>
        LET o == endpoints[1]
            bad == DisallowedOrderFields(heap, search, o)
        IN /\ ~LimitOk(search, o) => Kind(verr) = "InvalidLimit"
           /\ (LimitOk(search, o) /\ ~OffsetOk(search)) => verr = ErrOffsetNegative
           /\ (LimitOk(search, o) /\ OffsetOk(search) /\ bad # <<>>)
                 => verr = ErrOrderField(bad[1])
           /\ (LimitOk(search, o) /\ OffsetOk(search) /\ bad = <<>>
               /\ ~TreeOk(heap, search, o))
                 => Kind(verr) \in {"DisallowedLogicalOperator", "DisallowedFilterField",
                                    "DisallowedRelationalOperator"}

\* two different disallowed order fields and a filter-tree violation: the
\* first order field is the one reported
C6_Witness ==
    /\ Validated
    /\ LimitOk(search, endpoints[1]) /\ OffsetOk(search)
    /\ Len(DisallowedOrderFields(heap, search, endpoints[1])) = 2
    /\ search.OrderBy[1].Field # search.OrderBy[2].Field
    /\ ~TreeOk(heap, search, endpoints[1])
    /\ verr = ErrOrderField(search.OrderBy[1].Field)

\* C7: within the filter tree the violation reported is the first one in
\* depth-first pre-order: a group's operator, then its filters in listed
\* order (field before operator), then its nested groups in listed order,
\* each with its whole subtree.
C7_PreOrderFirst ==
    (Validated /\ LimitOk(search, endpoints[1]) /\ OffsetOk(search)
     /\ OrderOk(heap, search, endpoints[1]) /\ search.Groups # nil) =>
        LET errs == PreOrderErrors(heap, search.Groups[1], endpoints[1])
        IN errs # <<>> => verr = errs[1]

\* the root group itself is fine, two different violations sit in nested
\* groups, and the earlier one in pre-order is reported
C7_Witness ==
    /\ Validated /\ search.Groups # nil
    /\ LimitOk(search, endpoints[1]) /\ OffsetOk(search)
    /\ OrderOk(heap, search, endpoints[1])
    /\ LET g == search.Groups[1]
           errs == PreOrderErrors(heap, g, endpoints[1])
       IN /\ Len(errs) = 2 /\ errs[1] # errs[2]
          /\ PreOrderErrors(heap, [g EXCEPT !.Groups = <<>>], endpoints[1]) = <<>>
          /\ PreOrderErrors(heap, g.Groups[1], endpoints[1]) = <<errs[1]>>
          /\ PreOrderErrors(heap, g.Groups[1].Groups[1], endpoints[1]) = <<errs[1]>>
          /\ verr = errs[1]

\* C8: with a ceiling M the limit checks pass exactly when the limit is
\* present and 0 <= limit <= M; without a ceiling exactly when the limit is
\* absent or >= 0; a limit above the ceiling is reported with M in the message.
C8_LimitBounds ==
    Validated =>
        LET o == endpoints[1]
            passes == Kind(verr) # "InvalidLimit"
        IN /\ o.limit # nil =>
                (passes <=> (search.Limit # nil /\ 0 <= search.Limit[1]
                             /\ search.Limit[1] <= o.limit[1]))
           /\ o.limit = nil => (passes <=> (search.Limit = nil \/ search.Limit[1] >= 0))
           /\ (o.limit # nil /\ search.Limit # nil /\ search.Limit[1] > o.limit[1])
                 => verr = ErrLimitTooHigh(o.limit[1])

\* a ceiling of 0 and a limit of 0: the limit checks pass
C8_Witness ==
    /\ Validated
    /\ endpoints[1].limit = ptr(0) /\ search.Limit = ptr(0)
    /\ Kind(verr) # "InvalidLimit"

\* C9: a request that satisfies the five invariants against the
\* configuration is never rejected.
C9_NoFalseRejection ==
    (Validated /\ Satisfies(heap, search, endpoints[1])) => verr = NoError

\* a request with a limit at the ceiling, offset 0, two order clauses and a
\* filter tree with nested groups is accepted
C9_Witness ==
    /\ Validated /\ verr = NoError
    /\ endpoints[1].limit # nil /\ search.Limit = endpoints[1].limit
    /\ search.Offset = ptr(0)
    /\ Len(search.OrderBy) = 2
    /\ search.Groups # nil /\ Len(search.Groups[1].Groups) > 0
    /\ Len(search.Groups[1].Filters) > 0


----------------------------------------------------------------------------
(* Claims about the configuration resolver *)

\* the step is a NewSearchHandler call
Builds == Len(endpoints') = Len(endpoints) + 1

\* what the process-wide defaults resolve to
DefaultsView ==
    [filterFields |-> heap[defaultFilterFields],
     orderFields |-> heap[defaultOrderFields],
     logicalOperators |-> heap[defaultLogicalOperators],
     relationalOperators |-> heap[defaultRelationalOperators],
     limit |-> defaultLimit,
     queryParam |-> defaultQueryParam,
     isSearchMandatory |-> defaultSearchMandatory,
     errorHandler |-> defaultErrorHandler]

\* what the i-th endpoint's configuration resolves to
EndpointView(i) ==
    [filterFields |-> heap[endpoints[i].allowedFilterFields],
     orderFields |-> heap[endpoints[i].allowedOrderFields],
     logicalOperators |-> heap[endpoints[i].allowedLogicalOperators],
     relationalOperators |-> heap[endpoints[i].allowedRelationalOperators],
     limit |-> endpoints[i].limit,
     queryParam |-> endpoints[i].queryParam,
     isSearchMandatory |-> endpoints[i].isSearchMandatory]

\* C2: NewSearchHandler works on a clone of the process-wide defaults: a
\* call with any option list leaves every default as it was.
C2_DefaultsUntouched == [][Builds => DefaultsView' = DefaultsView]_vars

\* C3: an endpoint's configuration is immutable once built: building
\* another endpoint changes none of the allowed sets and scalars of the
\* endpoints built before.
C3_EndpointImmutable ==
    [][Builds => \A i \in 1..Len(endpoints) : EndpointView(i)' = EndpointView(i)]_vars

RECURSIVE FoldFields(_, _, _, _, _)
\* replace / union folded left to right over the option list, on plain sets
FoldFields(opts, i, set, replaceKind, extendKind) ==
    IF i > Len(opts) THEN set
    ELSE FoldFields(opts, i + 1,
                    IF opts[i].kind = replaceKind THEN Range(opts[i].list)
                    ELSE IF opts[i].kind = extendKind THEN set \cup Range(opts[i].list)
                    ELSE set,
                    replaceKind, extendKind)

\* C5: the allowed filter fields and order fields an endpoint is built with
\* are the left-to-right fold of the option list over the default set in
\* force at the call: With*Fields replaces, WithExtra*Fields unions.
C5_FoldInOrder ==
    [][Builds =>
        LET o == endpoints'[Len(endpoints')]
        IN /\ heap'[o.allowedFilterFields]
                = FoldFields(optsIn, 1, heap[defaultFilterFields],
                             "WithFilterFields", "WithExtraFilterFields")
           /\ heap'[o.allowedOrderFields]
                = FoldFields(optsIn, 1, heap[defaultOrderFields],
                             "WithOrderFields", "WithExtraOrderFields")]_vars

\* an endpoint built with extend(B) followed by replace(A) resolves to
\* exactly A
C5_Witness ==
    /\ Len(endpoints) = 1
    /\ optsIn = <<[kind |-> "WithExtraFilterFields", list |-> <<"name">>],
                  [kind |-> "WithFilterFields", list |-> <<"id">>]>>
    /\ heap[endpoints[1].allowedFilterFields] = {"id"}


----------------------------------------------------------------------------
(* Claims about the middleware *)

\* the step is an inbound call handled by the middleware
Handles == call = NoCall /\ call' # NoCall

\* the request the downstream handler of the handled call retrieves
Retrieved == GetSearchRequest(call'.ctx)

\* the parameter lookup of the handled call came back empty
Missing == Get(call'.query, endpoints[call'.endpoint].queryParam) = EmptyText

RECURSIVE Depth(_)
Depth(g) == IF g.Groups = <<>> THEN 1
            ELSE 1 + Depth(g.Groups[CHOOSE j \in 1..Len(g.Groups) :
                                       \A k \in 1..Len(g.Groups) :
                                          Depth(g.Groups[k]) <= Depth(g.Groups[j])])

\* C1: whenever the downstream handler is invoked with an attached
\* SearchRequest, the request satisfies the five invariants against the
\* endpoint's configuration: operators and fields at every depth of the
\* tree, order fields, limit and offset.
C1_DownstreamSeesValid ==
    [][(Handles /\ call'.nextCalls > 0 /\ Retrieved # nil)
        => Satisfies(heap, Retrieved[1], endpoints[call'.endpoint])]_vars

\* a request with groups nested three deep went through an endpoint that
\* allows only "and"
C1_Witness ==
    /\ call.pc = "done" /\ call.nextCalls = 1
    /\ heap[endpoints[call.endpoint].allowedLogicalOperators] = {AndOperator}
    /\ GetSearchRequest(call.ctx) # nil
    /\ GetSearchRequest(call.ctx)[1].Groups # nil
    /\ Depth(GetSearchRequest(call.ctx)[1].Groups[1]) = 3

\* C4: every inbound call invokes exactly one of the downstream handler and
\* the error handler, exactly once: the error handler when the parameter
\* lookup is empty on a mandatory endpoint, when decoding fails or when
\* validation fails, the downstream handler otherwise.
C4_ExactlyOneHandler ==
    [][Handles =>
        LET o == endpoints[call'.endpoint]
            d == Decode(Get(call'.query, o.queryParam))
            failure == \/ Missing /\ o.isSearchMandatory
                       \/ ~Missing /\ d.err # NoError
                       \/ ~Missing /\ d.err = NoError
                          /\ validateSearchRequest(heap, d.v, o) # NoError
        IN /\ call'.nextCalls + call'.errCalls = 1
           /\ failure <=> call'.errCalls = 1]_vars

\* a call without the parameter went through a not-mandatory endpoint: the
\* downstream handler ran once, the error handler did not
C4_Witness ==
    /\ call.pc = "done"
    /\ ~endpoints[call.endpoint].isSearchMandatory
    /\ call.query = NoParam
    /\ call.nextCalls = 1 /\ call.errCalls = 0

\* C10: when the configured parameter is absent from the call, a
\* not-mandatory endpoint runs the downstream handler with the call
\* unchanged, and GetSearchRequest there returns nil; a mandatory endpoint
\* invokes the error handler with the missing-parameter error naming the
\* parameter and does not run downstream.
C10_AbsentParameter ==
    [][(Handles /\ call'.query.name # endpoints[call'.endpoint].queryParam) =>
        LET o == endpoints[call'.endpoint]
        IN IF o.isSearchMandatory
           THEN /\ call'.errCalls = 1 /\ call'.nextCalls = 0
                /\ call'.handler = o.errorHandler
                /\ call'.err = ErrMissing(o.queryParam)
           ELSE /\ call'.nextCalls = 1 /\ call'.errCalls = 0
                /\ call'.ctx = call'.ctxIn
                /\ Retrieved = nil]_vars

\* a call carrying a payload under "q" went through a not-mandatory
\* endpoint that reads "s": downstream ran and finds no request
C10_Witness ==
    /\ call.pc = "done"
    /\ endpoints[call.endpoint].queryParam = "s"
    /\ ~endpoints[call.endpoint].isSearchMandatory
    /\ call.query.name = "q"
    /\ call.nextCalls = 1
    /\ GetSearchRequest(call.ctx) = nil



----------------------------------------------------------------------------
(* Claims about decoding *)

\* the closed schema of the payload, on the JSON document itself
SchemaFilter(j) == DOMAIN j \subseteq {"field", "op", "value"}

SchemaOrderClause(j) == DOMAIN j \subseteq {"field", "direction"}

RECURSIVE SchemaGroup(_)
SchemaGroup(j) ==
    /\ DOMAIN j \subseteq {"op", "filters", "groups"}
    /\ "filters" \in DOMAIN j =>
          \A i \in 1..Len(j.filters) : SchemaFilter(j.filters[i])
    /\ "groups" \in DOMAIN j =>
          \A i \in 1..Len(j.groups) : SchemaGroup(j.groups[i])

SchemaDocument(j) ==
    /\ DOMAIN j \subseteq {"groups", "order_by", "limit", "offset"}
    /\ "groups" \in DOMAIN j => SchemaGroup(j.groups)
    /\ "order_by" \in DOMAIN j =>
          \A i \in 1..Len(j.order_by) : SchemaOrderClause(j.order_by[i])

\* the text is one JSON document of the schema and nothing else
SchemaPayload(text) == text.kind = "json" /\ SchemaDocument(text.doc)

\* the errors of a payload that could not be decoded
MalformedErrors ==
    {ErrEOF, ErrSyntax}
    \cup {ErrUnknownField(k) : k \in {"page", "dir", "not", "val"}}

\* C11: when the configured parameter is on the call and its value is not a
\* payload of the closed schema (an empty value, a text that is not JSON, an
\* object with a key outside the schema at any nesting level), the error
\* handler is invoked with a malformed-payload error and the downstream
\* handler is not, whether or not the endpoint is mandatory.
C11_MalformedRejected ==
    [][(Handles /\ call'.query.name = endpoints[call'.endpoint].queryParam
               /\ ~SchemaPayload(call'.query.text))
        => /\ call'.errCalls = 1 /\ call'.nextCalls = 0
           /\ call'.err \in MalformedErrors]_vars

\* the same, for the texts that do not start with a JSON value or carry a
\* key outside the schema: these the decoder refuses
DecoderRefusesMalformed ==
    [][(Handles /\ call'.query.name = endpoints[call'.endpoint].queryParam
               /\ \/ call'.query.text.kind = "garbage"
                  \/ /\ call'.query.text.kind \in {"json", "json+text"}
                     /\ ~SchemaDocument(call'.query.text.doc))
        => /\ call'.errCalls = 1 /\ call'.nextCalls = 0
           /\ call'.err \in MalformedErrors]_vars


----------------------------------------------------------------------------
(* Claims about the operator registry *)

\* the enumerations of the registry as the package declares them
RegistryLogical == {AndOperator, OrOperator}

RegistryRelational ==
    {EqualsOperator, NotEqualsOperator, GreaterThanOperator,
     GreaterThanEqualsOperator, LowerThanOperator, LowerThanEqualsOperator,
     LikeOperator, ILikeOperator, InOperator}

RECURSIVE OperatorsKnown(_)
\* every operator of the tree below g is a value of the registry
OperatorsKnown(g) ==
    /\ g.Op \in RegistryLogical
    /\ \A i \in 1..Len(g.Filters) : g.Filters[i].Op \in RegistryRelational
    /\ \A i \in 1..Len(g.Groups) : OperatorsKnown(g.Groups[i])

\* C12: under every configuration built through the With* operations, a
\* request that passed validation and reached the downstream handler has
\* only registry operators: a group operator outside {and, or} and a filter
\* operator outside the nine relational operators are rejected.
C12_UnknownOperatorsRejected ==
    [][(Handles /\ call'.nextCalls > 0 /\ Retrieved # nil
               /\ Retrieved[1].Groups # nil)
        => OperatorsKnown(Retrieved[1].Groups[1])]_vars

\* C13: the registry is a constant of the process: after any sequence of
\* SetDefault*, With* and NewSearchHandler calls its logical enumeration is
\* still {and, or} and its relational enumeration is still the nine
\* operators; only the allowed sets are narrowed.
C13_RegistryConstant ==
    /\ heap[logicalOperators] = RegistryLogical
    /\ heap[relationalOperators] = RegistryRelational


----------------------------------------------------------------------------
(* Claims about the scalar settings *)

\* the position of the last option of one of the kinds in opts, 0 if none
LastOf(opts, kind) ==
    IF \E i \in 1..Len(opts) : opts[i].kind = kind
    THEN CHOOSE i \in 1..Len(opts) :
            /\ opts[i].kind = kind
            /\ \A k \in (i + 1)..Len(opts) : opts[k].kind # kind
    ELSE 0

\* C14: the parameter name, mandatory flag, limit ceiling and error handler
\* an endpoint is built with are each the value of the last option of the
\* list that sets it, or the default in force at the call when no option
\* does; a negative WithLimit or SetDefaultLimit means no ceiling.
C14_ScalarsLastWriteWins ==
    [][Builds =>
        LET o == endpoints'[Len(endpoints')]
            q == LastOf(optsIn, "WithQueryParam")
            m == LastOf(optsIn, "WithSearchMandatory")
            l == LastOf(optsIn, "WithLimit")
            e == LastOf(optsIn, "WithErrorHandler")
        IN /\ o.queryParam = IF q = 0 THEN defaultQueryParam ELSE optsIn[q].str
           /\ o.isSearchMandatory
                = IF m = 0 THEN defaultSearchMandatory ELSE optsIn[m].flag
           /\ o.limit = IF l = 0 THEN defaultLimit
                        ELSE IF optsIn[l].num < 0 THEN <<>>
                        ELSE <<optsIn[l].num>>
           /\ o.errorHandler
                = IF e = 0 THEN defaultErrorHandler ELSE optsIn[e].str]_vars

\* a ceiling is the default, and an endpoint built with WithLimit(1)
\* followed by WithLimit(-1) has none
C14_Witness ==
    /\ defaultLimit # <<>>
    /\ Len(endpoints) = 1
    /\ optsIn = <<[kind |-> "WithLimit", num |-> 1], [kind |-> "WithLimit", num |-> -1]>>
    /\ endpoints[1].limit = <<>>

\* an endpoint built with WithLimit(-1) followed by WithLimit(2) has
\* ceiling 2
C14_WitnessSecond ==
    /\ Len(endpoints) = 1
    /\ endpoints[1].limit = <<2>>
    /\ optsIn = <<[kind |-> "WithLimit", num |-> -1], [kind |-> "WithLimit", num |-> 2]>>


----------------------------------------------------------------------------
(* Claims about the round trip of a payload *)

\* the member of a JSON object, or d when the object has none of that name
MemberOr(j, k, d) == IF k \in DOMAIN j THEN j[k] ELSE d

RECURSIVE GroupOf(_)
\* the FilterGroup a JSON group of the schema describes
GroupOf(j) ==
    LET fj == MemberOr(j, "filters", <<>>)
        gj == MemberOr(j, "groups", <<>>)
    IN [Op |-> j.op,
        Filters |-> [i \in 1..Len(fj) |->
                        [Field |-> fj[i].field, Op |-> fj[i].op, Value |-> fj[i].value]],
        Groups |-> [i \in 1..Len(gj) |-> GroupOf(gj[i])]]

\* the SearchRequest a JSON document of the schema describes: an absent
\* member is an absent field
RequestOf(j) ==
    LET oj == MemberOr(j, "order_by", <<>>)
    IN [Groups |-> IF "groups" \in DOMAIN j THEN <<GroupOf(j.groups)>> ELSE <<>>,
        OrderBy |-> [i \in 1..Len(oj) |->
                        [Field |-> oj[i].field, Direction |-> oj[i].direction]],
        Limit |-> IF "limit" \in DOMAIN j THEN <<j.limit>> ELSE <<>>,
        Offset |-> IF "offset" \in DOMAIN j THEN <<j.offset>> ELSE <<>>]

\* C15: when the parameter carries a payload of the schema that satisfies
\* the endpoint's constraints, the downstream handler runs and
\* GetSearchRequest there returns the request the payload describes, field
\* by field: limit and offset (absent stays absent), the order clauses in
\* their order, the filter tree.
C15_RoundTrip ==
    [][(Handles /\ call'.query.name = endpoints[call'.endpoint].queryParam
               /\ SchemaPayload(call'.query.text)
               /\ Satisfies(heap, RequestOf(call'.query.text.doc),
                            endpoints[call'.endpoint]))
        => /\ call'.nextCalls = 1 /\ call'.errCalls = 0
           /\ Retrieved = <<RequestOf(call'.query.text.doc)>>]_vars

\* the payload {"limit":10,"offset":0} went through an endpoint without a
\* ceiling: downstream retrieves limit 10, offset 0, no groups, no order
C15_Witness ==
    /\ call.pc = "done" /\ call.nextCalls = 1
    /\ endpoints[call.endpoint].limit = <<>>
    /\ call.query.name = endpoints[call.endpoint].queryParam
    /\ call.query.text = JSONText([limit |-> 10, offset |-> 0])
    /\ GetSearchRequest(call.ctx)
         = <<[Groups |-> <<>>, OrderBy |-> <<>>, Limit |-> <<10>>, Offset |-> <<0>>]>>

\* a payload with a filter tree went through
C15_WitnessTree ==
    /\ call.pc = "done" /\ call.nextCalls = 1
    /\ GetSearchRequest(call.ctx) # <<>>
    /\ GetSearchRequest(call.ctx)[1].Groups # <<>>
    /\ GetSearchRequest(call.ctx)[1].Groups[1].Filters # <<>>


----------------------------------------------------------------------------
(* Claims about the retrieval *)

\* the positions of the context bound under the reserved key
ReservedBindings(ctx) ==
    {i \in 1..Len(ctx) : ctx[i].key = <<"contextKey", "search">>}

\* the innermost of them
Innermost(ctx) ==
    CHOOSE i \in ReservedBindings(ctx) : \A k \in ReservedBindings(ctx) : k <= i

\* C16: GetSearchRequest returns nil when nothing is bound under the
\* reserved key, also when the caller bound a value under the plain string
\* "search"; nil when what is bound under the reserved key is not a
\* *SearchRequest; and otherwise the very pointer bound under it.
C16_RetrievalTotal ==
    call.pc = "retrieved" =>
        IF ReservedBindings(call.ctx) = {} THEN call.result = <<>>
        ELSE LET v == call.ctx[Innermost(call.ctx)].val
             IN IF v.type = "*SearchRequest" THEN call.result = v.ptr
                ELSE call.result = <<>>

\* the caller bound a request under the plain string "search" and nothing
\* under the reserved key: no request is retrieved
C16_Witness ==
    /\ call.pc = "retrieved"
    /\ Len(call.ctx) = 1
    /\ call.ctx[1].key = <<"string", "search">>
    /\ call.ctx[1].val.type = "*SearchRequest"
    /\ call.result = <<>>

\* a request bound under the reserved key is retrieved past a later
\* binding of the plain string
C16_WitnessStored ==
    /\ call.pc = "retrieved"
    /\ Len(call.ctx) = 2
    /\ call.ctx[1].key = <<"contextKey", "search">>
    /\ call.ctx[2].key = <<"string", "search">>
    /\ call.ctx[1].val.type = "*SearchRequest"
    /\ call.result # <<>>
    /\ call.result = call.ctx[1].val.ptr


----------------------------------------------------------------------------
(* Claims about the symbols *)

\* the canonical symbols of the registry values, per type
CanonicalSymbols ==
    [LogicalOperator |-> {<<"or", "or">>, <<"and", "and">>},
     RelationalOperator |-> {<<"eq", "=">>, <<"ne", "<>">>, <<"gt", ">">>,
                             <<"gte", ">=">>, <<"lt", "<">>, <<"lte", "<=">>,
                             <<"like", "like">>, <<"ilike", "ilike">>, <<"in", "in">>},
     OrderDirection |-> {<<"desc", "desc">>, <<"asc", "asc">>}]

\* the symbol of a value no entry of the type recognises
DefaultSymbols ==
    [LogicalOperator |-> "and", RelationalOperator |-> "=", OrderDirection |-> "asc"]

\* C17: Symbol() gives a result for every value of LogicalOperator,
\* RelationalOperator and OrderDirection: a registry value maps to its
\* canonical symbol, every other value to the default of its type ("and",
\* "=", "asc").
C17_SymbolTotal ==
    call.pc = "symbol" =>
        IF \E e \in CanonicalSymbols[call.type] : e[1] = call.value
        THEN <<call.value, call.symbol>> \in CanonicalSymbols[call.type]
        ELSE call.symbol = DefaultSymbols[call.type]

\* an unrecognised relational operator was rendered as "="
C17_Witness ==
    /\ call.pc = "symbol"
    /\ call.type = "RelationalOperator"
    /\ call.value = "foo"
    /\ call.symbol = "="

\* "ne" was rendered as "<>"
C17_WitnessCanonical ==
    /\ call.pc = "symbol"
    /\ call.type = "RelationalOperator"
    /\ call.value = "ne"
    /\ call.symbol = "<>"


----------------------------------------------------------------------------
(* Claims about the order direction *)

\* C18: every order clause of a request that reaches the downstream handler
\* has the direction asc or desc: a payload with another direction on an
\* allowed order field is rejected before downstream runs.
C18_DirectionValidated ==
    [][(Handles /\ call'.nextCalls > 0 /\ Retrieved # <<>>)
        => \A i \in 1..Len(Retrieved[1].OrderBy) :
              Retrieved[1].OrderBy[i].Direction \in {"asc", "desc"}]_vars


----------------------------------------------------------------------------
(* Claims about calls in flight together *)

\* C19: calls through the same endpoint share no per-call state: under any
\* interleaving, a call whose payload is a valid request has its downstream
\* handler run and retrieve exactly the request of its own payload,
\* whatever the other calls carry and whether they are rejected; every
\* finished call invoked one handler once.
C19_CallsIsolated ==
    \A p \in Calls :
        call[p].pc = "done" =>
            /\ call[p].nextCalls + call[p].errCalls = 1
            /\ (/\ call[p].query.name = endpoints[1].queryParam
                /\ SchemaPayload(call[p].query.text)
                /\ Satisfies(heap, RequestOf(call[p].query.text.doc), endpoints[1]))
               => /\ call[p].nextCalls = 1
                  /\ GetSearchRequest(call[p].ctx)
                       = <<RequestOf(call[p].query.text.doc)>>

\* the second call finished with its own request while the first, carrying
\* another payload, was between decoding and attaching
C19_Witness ==
    /\ call[1].pc = "attach"
    /\ call[2].pc = "done" /\ call[2].nextCalls = 1
    /\ GetSearchRequest(call[2].ctx) # <<>>
    /\ GetSearchRequest(call[2].ctx)[1] # call[1].search

\* the first call was rejected, the second finished with its request
C19_WitnessRejected ==
    /\ call[1].pc = "done" /\ call[1].errCalls = 1
    /\ call[1].query.name = "q"
    /\ call[2].pc = "done" /\ call[2].nextCalls = 1
    /\ GetSearchRequest(call[2].ctx) # <<>>


----------------------------------------------------------------------------
(* Claims about the frame of the validation *)

\* C20: validateSearchRequest only reads: whether it returns nil or an
\* error, the request (limit, offset, order clauses, the whole tree) and the
\* endpoint's configuration (the four allowed sets, ceiling, parameter name,
\* mandatory flag) are as before, and validating the request it leaves
\* against the configuration it leaves gives the outcome it gave.
C20_ValidationReadOnly ==
    [][(phase = "input" /\ phase' = "validated")
        => /\ search' = search
           /\ EndpointView(1)' = EndpointView(1)
           /\ verr' = validateSearchRequest(heap', search', endpoints'[1])]_vars

\* a request without an offset was rejected for something in a nested group
C20_Witness ==
    /\ phase = "validated"
    /\ verr # NoError
    /\ search.Offset = <<>>
    /\ search.Groups # <<>>
    /\ Len(search.Groups[1].Groups) > 0
    /\ GroupOk(heap, [search.Groups[1] EXCEPT !.Groups = <<>>], endpoints[1])

\* a request without an offset was accepted
C20_WitnessAccepted ==
    /\ phase = "validated"
    /\ verr = NoError
    /\ search.Offset = <<>>
    /\ search.Groups # <<>>

====
